---- MODULE Spec2Model ----
(***************************************************************************)
(* The Shoemake arcball camera of src/src/lib.rs as a state machine.       *)
(*                                                                         *)
(* An f32 is modelled as an exact rational <<n, d>> in lowest terms with   *)
(* d > 0; rounding is outside the model, so "equal" below is the exact     *)
(* value the floating-point result approximates.  The inputs are drawn     *)
(* from sets on which every square root the code takes is rational.        *)
(* A Vec4 is a 4-tuple, a Mat4 a 4-tuple of columns (cols[c][r], as in     *)
(* ultraviolet), a Rotor3 a record [s, xy, xz, yz].                        *)
(***************************************************************************)
EXTENDS Integers, Sequences, FiniteSets

VARIABLES translation, center_translation, rotation, camera, inv_camera,
          zoom_speed, inv_screen, center, calls, ncalls, last

vars == <<translation, center_translation, rotation, camera, inv_camera,
          zoom_speed, inv_screen, center, calls, ncalls, last>>

-----------------------------------------------------------------------------
(* f32 arithmetic, exact *)

RECURSIVE GCD(_, _)
GCD(a, b) == IF b = 0 THEN a ELSE GCD(b, a % b)

IAbs(n) == IF n < 0 THEN -n ELSE n

Reduce(n, d, g) == <<n \div g, d \div g>>
\* n / d in lowest terms, for d > 0
Norm(n, d) ==
    IF n = 0 THEN <<0, 1>>
    ELSE IF d = 1 THEN <<n, 1>>
    ELSE Reduce(n, d, GCD(IAbs(n), d))

Zero == <<0, 1>>
One == <<1, 1>>
Two == <<2, 1>>
R(n) == <<n, 1>>
Frac(n, d) == Norm(n, d)

RNeg(a) == <<-a[1], a[2]>>
\* the sum over the least common denominator, g the gcd of the denominators
AddBy(a, b, g) == Norm(a[1] * (b[2] \div g) + b[1] * (a[2] \div g), (a[2] \div g) * b[2])
RAdd(a, b) ==
    IF a[1] = 0 THEN b
    ELSE IF b[1] = 0 THEN a
    ELSE IF a[2] = b[2] THEN Norm(a[1] + b[1], a[2])
    ELSE AddBy(a, b, GCD(a[2], b[2]))
RSub(a, b) == RAdd(a, RNeg(b))
\* the product, cancelled crosswise first: g1 = gcd(a.n, b.d), g2 = gcd(b.n, a.d)
MulBy(a, b, g1, g2) == <<(a[1] \div g1) * (b[1] \div g2), (a[2] \div g2) * (b[2] \div g1)>>
RMul(a, b) ==
    IF a[1] = 0 \/ b[1] = 0 THEN <<0, 1>>
    ELSE IF a[2] = 1 /\ b[2] = 1 THEN <<a[1] * b[1], 1>>
    ELSE MulBy(a, b, GCD(IAbs(a[1]), b[2]), GCD(IAbs(b[1]), a[2]))
\* 1 / a, for a # 0
RInv(a) == IF a[1] < 0 THEN <<-a[2], -a[1]>> ELSE <<a[2], a[1]>>
RDiv(a, b) == RMul(a, RInv(b))
RLe(a, b) == a[1] * b[2] <= b[1] * a[2]
RLt(a, b) == a[1] * b[2] < b[1] * a[2]
RAbs(a) == <<IAbs(a[1]), a[2]>>
RSq(a) == RMul(a, a)

\* f32::clamp
Clamp(x, lo, hi) == IF RLt(x, lo) THEN lo ELSE IF RLt(hi, x) THEN hi ELSE x

IsSquare(n) == \E k \in 0..n : k * k = n
ISqrt(n) == CHOOSE k \in 0..n : k * k = n
\* The square root is taken only where it is rational.
HasSqrt(a) == a[1] >= 0 /\ IsSquare(a[1]) /\ IsSquare(a[2])
\* f32::sqrt
Sqrt(a) == <<ISqrt(a[1]), ISqrt(a[2])>>

-----------------------------------------------------------------------------
(* ultraviolet: Vec3, Vec4, Mat4 *)

Vec3(x, y, z) == <<x, y, z>>
Vec4(x, y, z, w) == <<x, y, z, w>>

V3Add(a, b) == [i \in 1..3 |-> RAdd(a[i], b[i])]
V3Scale(a, k) == [i \in 1..3 |-> RMul(a[i], k)]
V3MagSq(a) == RAdd(RAdd(RSq(a[1]), RSq(a[2])), RSq(a[3]))
V4Scale(a, k) == [i \in 1..4 |-> RMul(a[i], k)]

\* Mat4::identity
Identity ==
    << <<One, Zero, Zero, Zero>>, <<Zero, One, Zero, Zero>>,
       <<Zero, Zero, One, Zero>>, <<Zero, Zero, Zero, One>> >>

\* Mat4::from_translation
FromTranslation(v) ==
    << <<One, Zero, Zero, Zero>>, <<Zero, One, Zero, Zero>>,
       <<Zero, Zero, One, Zero>>, <<v[1], v[2], v[3], One>> >>

Sum4(f) == RAdd(RAdd(f[1], f[2]), RAdd(f[3], f[4]))

\* Mat4 * Vec4: the combination of the columns
MatVec(m, v) == [r \in 1..4 |-> Sum4([k \in 1..4 |-> RMul(m[k][r], v[k])])]

\* Mat4 * Mat4
MatMul(a, b) == [c \in 1..4 |-> MatVec(a, b[c])]

\* the three indices of 1..4 other than i
Rem(i) == CASE i = 1 -> <<2, 3, 4>> [] i = 2 -> <<1, 3, 4>>
            [] i = 3 -> <<1, 2, 4>> [] i = 4 -> <<1, 2, 3>>

\* the 2x2 minor on rows r1, r2 and columns c1, c2
Det2(m, r1, r2, c1, c2) ==
    RSub(RMul(m[c1][r1], m[c2][r2]), RMul(m[c1][r2], m[c2][r1]))

\* the 3x3 minor on rows rs and columns cs, expanded along its first column
Det3(m, rs, cs) ==
    LET lo(i) == IF i = 1 THEN 2 ELSE 1
        hi(i) == IF i = 3 THEN 2 ELSE 3
        t == [i \in 1..3 |->
                 RMul(m[cs[1]][rs[i]], Det2(m, rs[lo(i)], rs[hi(i)], cs[2], cs[3]))]
    IN  RAdd(RSub(t[1], t[2]), t[3])

Signed(d, k) == IF k % 2 = 0 THEN d ELSE RNeg(d)
Cofactor(m, r, c) == Signed(Det3(m, Rem(r), Rem(c)), r + c)

\* the determinant, as inversed() takes it: cols[0] dotted with the first
\* row of the cofactor matrix
Det(m) == Sum4([r \in 1..4 |-> RMul(m[1][r], Cofactor(m, r, 1))])

\* what 1.0 / 0.0 and the products with it leave in every entry
NaN == <<0, 0>>
NaNMat == [c \in 1..4 |-> [r \in 1..4 |-> NaN]]

Adjugate(m, rcp_det) == [c \in 1..4 |-> [r \in 1..4 |-> RMul(Cofactor(m, c, r), rcp_det)]]
InversedBy(m, det) == IF det = Zero THEN NaNMat ELSE Adjugate(m, RInv(det))
\* Mat4::inversed: the transposed cofactors times 1 / det
Inversed(m) == InversedBy(m, Det(m))

-----------------------------------------------------------------------------
(* ultraviolet: Rotor3 *)

\* Rotor3::identity
RotorIdentity == [s |-> One, xy |-> Zero, xz |-> Zero, yz |-> Zero]

\* Rotor3::from_quaternion_array([x, y, z, w])
FromQuaternionArray(x, y, z, w) == [s |-> w, xy |-> RNeg(z), xz |-> y, yz |-> RNeg(x)]

\* Rotor3 * Rotor3: the geometric product
RotorMul(p, q) ==
    [s  |-> RSub(RSub(RSub(RMul(p.s, q.s), RMul(p.xy, q.xy)), RMul(p.xz, q.xz)),
                 RMul(p.yz, q.yz)),
     xy |-> RSub(RAdd(RAdd(RMul(p.xy, q.s), RMul(p.s, q.xy)), RMul(p.yz, q.xz)),
                 RMul(p.xz, q.yz)),
     xz |-> RAdd(RSub(RAdd(RMul(p.xz, q.s), RMul(p.s, q.xz)), RMul(p.yz, q.xy)),
                 RMul(p.xy, q.yz)),
     yz |-> RSub(RAdd(RAdd(RMul(p.yz, q.s), RMul(p.s, q.yz)), RMul(p.xz, q.xy)),
                 RMul(p.xy, q.xz))]

RotorMagSq(r) == RAdd(RAdd(RSq(r.s), RSq(r.xy)), RAdd(RSq(r.xz), RSq(r.yz)))

\* Mat3::from(Rotor3).into_homogeneous()
RotorToMat4(r) ==
    LET s2 == RSq(r.s)
        bxy2 == RSq(r.xy)
        bxz2 == RSq(r.xz)
        byz2 == RSq(r.yz)
        s_bxy == RMul(r.s, r.xy)
        s_bxz == RMul(r.s, r.xz)
        s_byz == RMul(r.s, r.yz)
        bxz_byz == RMul(r.xz, r.yz)
        bxy_byz == RMul(r.xy, r.yz)
        bxy_bxz == RMul(r.xy, r.xz)
    IN  << <<RAdd(RSub(RSub(s2, bxy2), bxz2), byz2),
             RNeg(RMul(Two, RAdd(bxz_byz, s_bxy))),
             RMul(Two, RSub(bxy_byz, s_bxz)), Zero>>,
           <<RMul(Two, RSub(s_bxy, bxz_byz)),
             RSub(RAdd(RSub(s2, bxy2), bxz2), byz2),
             RNeg(RMul(Two, RAdd(s_byz, bxy_bxz))), Zero>>,
           <<RMul(Two, RAdd(s_bxz, bxy_byz)),
             RMul(Two, RSub(s_byz, bxy_bxz)),
             RSub(RSub(RAdd(s2, bxy2), bxz2), byz2), Zero>>,
           <<Zero, Zero, Zero, One>> >>

-----------------------------------------------------------------------------
(* the inputs and the bounds of the model *)

\* the model follows the camera through at most MaxCalls calls after new
MaxCalls == 3
\* the components of the rotor keep denominators up to MaxDen
MaxDen == 5

\* viewport widths and heights
Screens == {<<8, 4>>, <<4, 8>>}
Centers == {Vec3(Zero, Zero, Zero), Vec3(One, R(2), R(-3))}
ZoomSpeeds == {One, Two}
Amounts == {One, RNeg(One)}
Elapsed == {Frac(1, 2), One}
\* mouse positions in pixels, some of them outside the window
Pixels == {<<R(4), R(2)>>, <<R(2), R(4)>>, <<R(7), R(-2)>>, <<Frac(16, 5), R(4)>>,
           <<R(8), R(2)>>}
Deltas == {<<R(6), Zero>>, <<R(-6), Zero>>, <<Zero, R(8)>>}

-----------------------------------------------------------------------------
(* ArcballCamera *)

\* the pixel to NDC mapping of rotate: x and y of m_cur, m_prev
Ndc(mouse, inv) ==
    <<Clamp(RSub(RMul(RMul(mouse[1], Two), inv[1]), One), RNeg(One), One),
      Clamp(RSub(One, RMul(RMul(Two, mouse[2]), inv[2])), RNeg(One), One)>>

\* Vec2::mag_sq
MagSq2(p) == RAdd(RSq(p[1]), RSq(p[2]))

\* screen_to_arcball without the normalisation of a point outside the ball
screen_to_arcball_raw(p) ==
    LET dist == MagSq2(p)
    IN  IF RLe(dist, One)
        THEN FromQuaternionArray(p[1], p[2], Sqrt(RSub(One, dist)), Zero)
        ELSE FromQuaternionArray(p[1], p[2], Zero, Zero)

\* ArcballCamera::screen_to_arcball
screen_to_arcball(p) ==
    LET dist == MagSq2(p)
    IN  IF RLe(dist, One)
        THEN FromQuaternionArray(p[1], p[2], Sqrt(RSub(One, dist)), Zero)
        ELSE LET mag == Sqrt(dist)
             IN  FromQuaternionArray(RDiv(p[1], mag), RDiv(p[2], mag), Zero, Zero)

\* the product with the rotation applied before the centering
CameraMatrixTurnFirst(t, r, c) == MatMul(MatMul(t, c), RotorToMat4(r))

\* the product update_camera stores in camera
CameraMatrix(t, r, c) == MatMul(MatMul(t, RotorToMat4(r)), c)

\* update_camera inverting the matrix it is about to replace
update_camera_stale ==
    /\ camera' = CameraMatrix(translation', rotation', center_translation')
    /\ inv_camera' = Inversed(camera)

\* ArcballCamera::update_camera, run on the new values of the three transforms
update_camera ==
    /\ camera' = CameraMatrix(translation', rotation', center_translation')
    /\ inv_camera' = Inversed(camera')

\* the translation column of the view matrix, not of its inverse
eye_pos_view == Vec3(camera[4][1], camera[4][2], camera[4][3])

\* ArcballCamera::eye_pos
eye_pos == Vec3(inv_camera[4][1], inv_camera[4][2], inv_camera[4][3])

\* the rotation without the rotor of the previous mouse position
RotateRotationCur(mouse_prev, mouse_cur) ==
    LET m_cur == Ndc(mouse_cur, inv_screen)
        mouse_cur_ball == screen_to_arcball(m_cur)
    IN  RotorMul(mouse_cur_ball, rotation)

\* the rotation rotate stores
RotateRotation(mouse_prev, mouse_cur) ==
    LET m_cur == Ndc(mouse_cur, inv_screen)
        m_prev == Ndc(mouse_prev, inv_screen)
        mouse_cur_ball == screen_to_arcball(m_cur)
        mouse_prev_ball == screen_to_arcball(m_prev)
    IN  RotorMul(RotorMul(mouse_cur_ball, mouse_prev_ball), rotation)

\* the translation of a zoom that moves the other way
ZoomTranslationAway(amount, elapsed) ==
    LET motion == Vec3(Zero, Zero, RNeg(amount))
    IN  MatMul(FromTranslation(V3Scale(V3Scale(motion, zoom_speed), elapsed)), translation)

\* the translation zoom stores
ZoomTranslation(amount, elapsed) ==
    LET motion == Vec3(Zero, Zero, amount)
    IN  MatMul(FromTranslation(V3Scale(V3Scale(motion, zoom_speed), elapsed)), translation)

\* the motion of a pan that takes the delta for a point (w = 1)
PanMotionPoint(mouse_delta) ==
    LET zoom_dist == RAbs(translation[4][4])
        delta == V4Scale(Vec4(RMul(mouse_delta[1], inv_screen[1]),
                              RMul(RNeg(mouse_delta[2]), inv_screen[2]),
                              Zero, One), zoom_dist)
    IN  MatVec(inv_camera, delta)

\* the world-space motion pan adds to center_translation
PanMotion(mouse_delta) ==
    LET zoom_dist == RAbs(translation[4][4])
        delta == V4Scale(Vec4(RMul(mouse_delta[1], inv_screen[1]),
                              RMul(RNeg(mouse_delta[2]), inv_screen[2]),
                              Zero, Zero), zoom_dist)
    IN  MatVec(inv_camera, delta)

Call(op, args) == [op |-> op, args |-> args]
More == <<Call("more", <<>>)>>
\* the record of a call: calls holds the calls made since new while there are
\* at most two of them, ncalls counts them, last names the latest
Log(call) ==
    /\ ncalls' = ncalls + 1
    /\ last' = call.op
    /\ calls' = IF ncalls < 2 THEN Append(calls, call) ELSE More

(* the bounds of the model on the unbounded quantities *)
RotorDen(r) == LET m(a, b) == IF a < b THEN b ELSE a
               IN  m(m(r.s[2], r.xy[2]), m(r.xz[2], r.yz[2]))
\* a point whose square roots are rational
Exact(p) == LET dist == MagSq2(p)
            IN  IF RLe(dist, One) THEN HasSqrt(RSub(One, dist)) ELSE HasSqrt(dist)

\* ArcballCamera::new
Init ==
    /\ center \in Centers
    /\ zoom_speed \in ZoomSpeeds
    /\ \E screen \in Screens :
           inv_screen = <<RDiv(One, R(screen[1])), RDiv(One, R(screen[2]))>>
    /\ translation = FromTranslation(Vec3(Zero, Zero, RNeg(One)))
    /\ center_translation = Inversed(FromTranslation(center))
    /\ rotation = RotorIdentity
    /\ camera = CameraMatrix(translation, rotation, center_translation)
    /\ inv_camera = Inversed(camera)
    /\ calls = <<>>
    /\ ncalls = 0
    /\ last = "new"

\* ArcballCamera::rotate
rotate(mouse_prev, mouse_cur) ==
    /\ ncalls < MaxCalls
    /\ Exact(Ndc(mouse_prev, inv_screen))
    /\ Exact(Ndc(mouse_cur, inv_screen))
    /\ rotation' = RotateRotation(mouse_prev, mouse_cur)
    /\ RotorDen(rotation') <= MaxDen
    /\ UNCHANGED <<translation, center_translation, zoom_speed, inv_screen, center>>
    /\ update_camera
    /\ Log(Call("rotate", <<mouse_prev, mouse_cur>>))

\* zoom returning before update_camera
zoom_stale(amount, elapsed) ==
    /\ ncalls < MaxCalls
    /\ translation' = ZoomTranslation(amount, elapsed)
    /\ UNCHANGED <<rotation, center_translation, zoom_speed, inv_screen, center>>
    /\ UNCHANGED <<camera, inv_camera>>
    /\ Log(Call("zoom", <<amount, elapsed>>))

\* ArcballCamera::zoom
zoom(amount, elapsed) ==
    /\ ncalls < MaxCalls
    /\ translation' = ZoomTranslation(amount, elapsed)
    /\ UNCHANGED <<rotation, center_translation, zoom_speed, inv_screen, center>>
    /\ update_camera
    /\ Log(Call("zoom", <<amount, elapsed>>))

\* ArcballCamera::pan
pan(mouse_delta) ==
    /\ ncalls < MaxCalls
    /\ LET motion == PanMotion(mouse_delta)
       IN  center_translation' =
               MatMul(FromTranslation(Vec3(motion[1], motion[2], motion[3])),
                      center_translation)
    /\ UNCHANGED <<translation, rotation, zoom_speed, inv_screen, center>>
    /\ update_camera
    /\ Log(Call("pan", mouse_delta))

\* update_screen that also puts the camera back at its first distance
update_screen_reset(width, height) ==
    /\ ncalls < MaxCalls
    /\ inv_screen' = <<RDiv(One, width), RDiv(One, height)>>
    /\ translation' = FromTranslation(Vec3(Zero, Zero, RNeg(One)))
    /\ UNCHANGED <<center_translation, rotation, zoom_speed, center>>
    /\ update_camera
    /\ Log(Call("update_screen", <<width, height>>))

\* ArcballCamera::update_screen
update_screen(width, height) ==
    /\ ncalls < MaxCalls
    /\ inv_screen' = <<RDiv(One, width), RDiv(One, height)>>
    /\ UNCHANGED <<translation, center_translation, rotation, camera, inv_camera,
                   zoom_speed, center>>
    /\ Log(Call("update_screen", <<width, height>>))

Next ==
    \/ \E mouse_prev \in Pixels, mouse_cur \in Pixels : rotate(mouse_prev, mouse_cur)
    \/ \E amount \in Amounts, elapsed \in Elapsed : zoom(amount, elapsed)
    \/ \E mouse_delta \in Deltas : pan(mouse_delta)
    \/ \E screen \in Screens : update_screen(R(screen[1]), R(screen[2]))

Spec == Init /\ [][Next]_vars

-----------------------------------------------------------------------------
(* what the claims speak of *)

InitialTranslation == FromTranslation(Vec3(Zero, Zero, RNeg(One)))
InitialCenterTranslation == FromTranslation(Vec3(RNeg(center[1]), RNeg(center[2]), RNeg(center[3])))
\* the point the camera looks at: what center_translation moves to the origin
Focus == Vec3(RNeg(center_translation[4][1]), RNeg(center_translation[4][2]),
              RNeg(center_translation[4][3]))
V3Diff(a, b) == [i \in 1..3 |-> RSub(a[i], b[i])]
DistSq(a, b) == V3MagSq(V3Diff(a, b))
Dot3(a, b) == RAdd(RAdd(RMul(a[1], b[1]), RMul(a[2], b[2])), RMul(a[3], b[3]))
\* the upper-left 3x3 block of m has unit, mutually orthogonal columns
Orthonormal3(m) ==
    \A i \in 1..3, j \in 1..3 : Dot3(m[i], m[j]) = IF i = j THEN One ELSE Zero
RotorNeg(r) == [s |-> RNeg(r.s), xy |-> RNeg(r.xy), xz |-> RNeg(r.xz), yz |-> RNeg(r.yz)]
Panned == center_translation # InitialCenterTranslation
Turned == rotation # RotorIdentity /\ rotation # RotorNeg(RotorIdentity)
\* the z of the zoom translation: minus the distance of the eye from the focus
\* while the camera is on its side of the focus
ZoomZ == translation[4][3]

\* C1: in every reachable state the cached view matrix is translation x
\* mat4(rotation) x center_translation of the current fields, and the cached
\* inverse is the inverse of that product: no call returns with a stale cache.
C1_CacheFresh ==
    /\ camera = MatMul(MatMul(translation, RotorToMat4(rotation)), center_translation)
    /\ inv_camera = Inversed(MatMul(MatMul(translation, RotorToMat4(rotation)),
                                    center_translation))
\* rotate, zoom and pan have all acted
C1_Witness ==
    /\ Turned /\ Panned /\ translation # InitialTranslation
    /\ C1_CacheFresh

\* C2 (as claimed): across a zoom call that changes the distance |z| from the
\* focus by the factor k = |z'| / |z|, the world-space motion of pan(d) grows by
\* k, for every d: motion' * |z| = motion * |z'|.
C2_PanProportional ==
    [][last' = "zoom" =>
          \A d \in Deltas :
              V3Scale(PanMotion(d)', RAbs(ZoomZ)) = V3Scale(PanMotion(d), RAbs(ZoomZ'))]_vars

\* C3: in every reachable state the view matrix is invertible and
\* inv_camera x camera is the 4x4 identity, also with the camera on or beyond
\* the focus point.
C3_RoundTrip ==
    /\ Det(camera) # Zero
    /\ MatMul(inv_camera, camera) = Identity
\* the camera has gone through the focus, turned and panned
C3_Witness ==
    /\ RLt(Zero, ZoomZ) /\ Turned /\ Panned
    /\ C3_RoundTrip
\* the camera sits on the focus
C3_WitnessOnFocus == ZoomZ = Zero /\ Turned /\ C3_RoundTrip

\* C4: a call of update_screen leaves translation, rotation,
\* center_translation, zoom_speed, the view matrix and its inverse unchanged.
C4_ScreenFrame ==
    [][last' = "update_screen" =>
          UNCHANGED <<translation, rotation, center_translation, zoom_speed,
                      camera, inv_camera>>]_vars
\* update_screen has changed the screen of a camera that was turned before
C4_Witness ==
    /\ ncalls = 2 /\ Turned
    /\ calls[1].op = "rotate" /\ calls[2].op = "update_screen"
    /\ inv_screen # <<RDiv(One, calls[2].args[2]), RDiv(One, calls[2].args[1])>>

\* C5: the orientation stays unit length and the upper-left 3x3 block of the
\* view matrix stays orthonormal; every rotor screen_to_arcball makes of a
\* clamped NDC point is unit length, in the branch dist <= 1 and in dist > 1.
C5_Unit ==
    /\ RotorMagSq(rotation) = One
    /\ Orthonormal3(camera)
    /\ \A p \in Pixels :
           Exact(Ndc(p, inv_screen)) =>
               RotorMagSq(screen_to_arcball(Ndc(p, inv_screen))) = One
\* a rotate call took one point from each branch
C5_Witness ==
    /\ ncalls = 1 /\ calls[1].op = "rotate"
    /\ RLt(One, MagSq2(Ndc(calls[1].args[1], inv_screen)))
    /\ RLt(MagSq2(Ndc(calls[1].args[2], inv_screen)), One)
    /\ RotorDen(rotation) > 1
    /\ C5_Unit

\* the distance of the eye from the center given to new, squared
EyeDistSq == DistSq(eye_pos, center)

C7_PanCancels ==
    \A d \in Deltas :
        (ncalls = 2 /\ d[2] = Zero
             /\ calls = <<Call("pan", d), Call("pan", <<RNeg(d[1]), Zero>>)>>) =>
            /\ eye_pos = V3Add(center, Vec3(Zero, Zero, One))
            /\ center_translation = InitialCenterTranslation
C7_Witness ==
    /\ ncalls = 2
    /\ calls = <<Call("pan", <<R(6), Zero>>), Call("pan", <<R(-6), Zero>>)>>
    /\ eye_pos = V3Add(center, Vec3(Zero, Zero, One))

\* C8: right after new the eye is at center + (0, 0, 1) and the view matrix
\* is translation(0, 0, -1) x identity x translation(-center).
C8_InitialEye ==
    ncalls = 0 =>
        /\ eye_pos = V3Add(center, Vec3(Zero, Zero, One))
        /\ camera = MatMul(MatMul(InitialTranslation, Identity), InitialCenterTranslation)
C8_Witness ==
    /\ ncalls = 0 /\ center # Vec3(Zero, Zero, Zero)
    /\ eye_pos = V3Add(center, Vec3(Zero, Zero, One))

\* C9: a rotate call changes neither translation nor center_translation and
\* keeps the distance of the eye from the focus; a camera that was neither
\* zoomed nor panned stays at distance 1 from center.
C9_Orbit ==
    /\ [][last' = "rotate" =>
             /\ translation' = translation
             /\ center_translation' = center_translation
             /\ DistSq(eye_pos', Focus') = DistSq(eye_pos, Focus)]_vars
    /\ []((~Panned /\ translation = InitialTranslation) => EyeDistSq = One)
\* rotate has turned a zoomed and panned camera
C9_Witness ==
    /\ ncalls = 3 /\ last = "rotate" /\ Turned /\ Panned
    /\ translation # InitialTranslation
    /\ DistSq(eye_pos, Focus) = RSq(ZoomZ)

\* C10: rotate(p, p) leaves the view matrix and its inverse unchanged, and
\* negates the stored rotor.
C10_RotateInPlace ==
    [][\A p \in Pixels :
           (last' = "rotate" /\ Exact(Ndc(p, inv_screen))
                /\ rotation' = RotateRotation(p, p)) =>
               /\ camera' = camera
               /\ inv_camera' = inv_camera
               /\ rotation' = RotorNeg(rotation)]_vars
\* rotate(p, p) has acted on a turned camera
C10_Witness ==
    /\ ncalls = 2 /\ Turned /\ RotorDen(rotation) > 1
    /\ calls[2].op = "rotate" /\ calls[2].args[1] = calls[2].args[2]

====
